---- MODULE Spec2Model ----
(***************************************************************************)
(* Model of the benchmark harness of webgraph-ans-rs:                      *)
(*   script.py                 the compression / speed benchmark run       *)
(*   percomponent_analysis.py  the per-component size report               *)
(* Sizes are bytes, arc counts are integers.  Floating point values are    *)
(* kept exact: speeds are integers in hundredths of ns/arc, bits-per-link  *)
(* read from a property file are integers in thousandths, and a quotient   *)
(* is a record [num, den] that the formatting operators round.             *)
(***************************************************************************)
EXTENDS Integers, Sequences, FiniteSets, TLC

\* ------------------------------------------------------------------ bounds
\* Number of datasets in the registry (ans_graphs).
NumGraphs == 2
\* How many of the input files may be absent when a run starts.
MaxMissing == 1
\* Longest tool output (in lines) given to a statistic reduction.
MaxSamples == 4
\* Longest property file (in lines) given to the metadata extraction.
MaxLines == 2
\* Largest size / speed given to a percentage delta.
MaxMetric == 4

\* ---------------------------------------------------------------- registry
ans_graphs == [i \in 1..NumGraphs |-> <<"graph", i>>]

high_compressed_params == [w |-> 16, c |-> 2000000000]

\* The files of one dataset that script.py tests with os.path.isfile.
ScriptFiles == {"properties", "hc.properties", "obl", "graph", "hc.graph"}

\* The files of one dataset that script.py reads after its checks.
ScriptFilesRead == {"properties", "hc.properties", "obl"}

\* --------------------------------------------------------------- arithmetic
\* Python's "{:.<k>f}".format(num / den), den > 0, as an integer number of
\* 10^-k units: round half to even.  scale = 10^k.
RoundHalfEven(num, den, scale) ==
    LET n == num * scale
        q == n \div den
        r == n - q * den
    IN  IF 2 * r < den THEN q
        ELSE IF 2 * r > den THEN q + 1
        ELSE IF q % 2 = 0 THEN q ELSE q + 1

\* int(x) of a non-negative quotient: truncation.
IntOf(num, den) == num \div den

\* sorted(): ascending, by insertion.
RECURSIVE Insert(_, _)
Insert(x, s) ==
    IF s = <<>> THEN <<x>>
    ELSE IF x <= Head(s) THEN <<x>> \o s
    ELSE <<Head(s)>> \o Insert(x, Tail(s))

RECURSIVE Sorted(_)
Sorted(s) == IF s = <<>> THEN <<>> ELSE Insert(Head(s), Sorted(Tail(s)))

\* lst[len(lst) // 2] of a sorted list (Python indexes from 0).
MiddleOf(s) == s[(Len(s) \div 2) + 1]

\* ------------------------------------------------------- statistic reduction
\* The standard output of seq_access_bvtest / random_access_bvtest after
\* split("\n") is a sequence of fields: <<>> is the empty string, <<v>> a
\* numeric literal.  The result is [err, val].
NonEmptyFields(fields) ==
    LET kept == SelectSeq(fields, LAMBDA f : f /= <<>>)
    IN  [i \in 1..Len(kept) |-> kept[i][1]]

MedianUnsorted(samples) ==
    IF samples = <<>> THEN [err |-> "IndexError", val |-> 0]
    ELSE [err |-> "none", val |-> MiddleOf(samples)]

\* sorted(samples)[len(samples) // 2]; an empty list raises IndexError.
Median(samples) ==
    IF samples = <<>> THEN [err |-> "IndexError", val |-> 0]
    ELSE [err |-> "none", val |-> MiddleOf(Sorted(samples))]

sequential_speed(fields) == Median(NonEmptyFields(fields))

random_speed(fields) == Median(NonEmptyFields(fields))

\* The output of "webgraph bench" after split("\n"): each line is the
\* sequence of its columns after re.split(' +', line); the last line is
\* dropped, the float of column [1] is taken.
BenchLines(lines) == SubSeq(lines, 1, Len(lines) - 1)

bv_random_speed_of(lines) ==
    IF \E i \in 1..Len(BenchLines(lines)) : Len(BenchLines(lines)[i]) < 2
    THEN [err |-> "IndexError", val |-> 0]
    ELSE Median([i \in 1..Len(BenchLines(lines)) |-> BenchLines(lines)[i][2]])

\* ---------------------------------------------------------- metrics engine
\* A quotient kept exact.
Quot(n, d) == [num |-> n, den |-> d]

DeltaNotNegated(baseline, new) == Quot((baseline - new) * 100, baseline)

\* -(((baseline - new) / baseline) * 100)
Delta(baseline, new) == Quot(-((baseline - new) * 100), baseline)

occupation(bv, ans) == Delta(bv, ans)

occupation_hc(bv_hc, ans_hc) == Delta(bv_hc, ans_hc)

occupation_phases_not_negated(obl_size, phases) == DeltaNotNegated(obl_size, phases)

occupation_phases(obl_size, phases) == Delta(obl_size, phases)

random_speed_comparison(bv_speed, ans_speed) == Delta(bv_speed, ans_speed)

component_delta(bv_component, ans_component) == Delta(bv_component, ans_component)

\* (size * 8) / arcs
bit_link(size, n_arcs) == Quot(size * 8, n_arcs)

\* ------------------------------------------------------ metadata extraction
\* A property file is a sequence of key=value lines [key, val].  A key is a
\* sequence of atoms: a field name (a whole word such as "arcs"), "x" (one
\* more word character) or "." (a character that is not a word constituent).
\* The output of "grep ... | cut -d'=' -f2" is the sequence of the values
\* of the matching lines.
ValuesOf(kept) == [i \in 1..Len(kept) |-> kept[i].val]

\* grep -w name: the name occurs in the line as a whole word.
WordLine(name, line) ==
    \E p \in 1..Len(line.key) :
        /\ line.key[p] = name
        /\ (p = 1 \/ line.key[p - 1] = ".")
        /\ (p = Len(line.key) \/ line.key[p + 1] = ".")

GrepWord(name, file) == ValuesOf(SelectSeq(file, LAMBDA l : WordLine(name, l)))

\* grep ^name: the line starts with the name.
CaretLine(name, line) == Len(line.key) >= 1 /\ line.key[1] = name

GrepCaret(name, file) == ValuesOf(SelectSeq(file, LAMBDA l : CaretLine(name, l)))

\* int(...) / float(...) of the captured output: exactly one number, or
\* ValueError (no line, or several lines joined by newlines).
ParseNumber(out) ==
    IF Len(out) = 1 THEN [err |-> "none", val |-> out[1]]
    ELSE [err |-> "ValueError", val |-> 0]

\* script.py: int(grep -w arcs)
number_of_arcs(file) == ParseNumber(GrepWord("arcs", file))

\* script.py: float(grep -w bitsperlink), in thousandths
bit_per_link(file) == ParseNumber(GrepWord("bitsperlink", file))

\* int((bit_per_link * number_of_arcs) / 8)
bv_size(bpl_milli, n_arcs) == IntOf(bpl_milli * n_arcs, 8000)

\* percomponent_analysis.py: int(float(grep ^field) / 8)
bv_component(field, file) ==
    LET got == ParseNumber(GrepCaret(field, file))
    IN  IF got.err /= "none" THEN got
        ELSE [err |-> "none", val |-> IntOf(got.val, 8)]

\* ---------------------------------------------------------------- report
\* "{:.<k>f}".format(q)
Fmt0(q) == RoundHalfEven(q.num, q.den, 1)

Fmt1(q) == RoundHalfEven(q.num, q.den, 10)

Fmt3(q) == RoundHalfEven(q.num, q.den, 1000)

\* What a report file may hold before a run.
Stale == << <<"stale">> >>

OpenForAppending(old) == old

\* open(path, 'w'): the file is truncated.
OpenForWriting(old) == <<>>

Header ==
    <<"name", "BVGraph", "ANSBVGraph", "bit/link", "HC-BVGraph", "HC-ANSBVGraph",
      "HC-bit/link", "phases", "total", "random speed (ns/arc)",
      "sequential speed (ns/arc)">>

\* --------------------------------------------------------------- the state
VARIABLES
    pc,             \* the statement the script is at
    graph,          \* the index of the dataset the current loop is at
    exitStatus,     \* -1 while running, then the process's exit status
    error,          \* "none", "exit" (exit(1)) or the uncaught exception
    failedAt,       \* the statement that raised it, or "none"
    missing,        \* the input files absent when the run starts: <<index, file>>
    badDir,         \* the argument that is not a directory, or "none"
    buildStep,      \* the cargo build invocation the script is at
    buildFailed,    \* some build invocation ended with a non-zero status
    ansTools,       \* ./target/release/* exist
    wgTool,         \* <webgraph-rs>/target/release/webgraph exists
    artifacts,      \* the output directory: per dataset, size of each file or -1
    arcs, bv_graphs_size, bv_hc_graphs_size, ans_sizes, ans_hc_sizes,
    ans_phases_sizes, random_access_speed, sequential_access_speed,
    origin,         \* per accumulator list, the dataset each entry was read from
    bv_random_speed, obl_size,
    results,        \* results.csv: a sequence of rows
    components_analysis, components_analysis_hc,
    launched,       \* the external programs started so far
    afterHeader,    \* what ran after a report's header was written
    compFailed,     \* the datasets whose compressor ended with a non-zero status
    artifactsRead,  \* the datasets whose artifacts' sizes were read
    speedTested,    \* the datasets whose speed tests ran
    fnIn, fnOut     \* the input and results of the functions applied alone

accVars ==
    <<arcs, bv_graphs_size, bv_hc_graphs_size, ans_sizes, ans_hc_sizes,
      ans_phases_sizes, random_access_speed, sequential_access_speed, origin>>

envVars == <<missing, badDir>>

toolVars == <<buildStep, buildFailed, ansTools, wgTool>>

ghostVars == <<compFailed, artifactsRead, speedTested>>

reportVars == <<results, components_analysis, components_analysis_hc>>

fnVars == <<fnIn, fnOut>>

vars ==
    <<pc, graph, exitStatus, error, failedAt, envVars, toolVars, artifacts, accVars,
      bv_random_speed, obl_size, reportVars, launched, afterHeader, ghostVars,
      fnVars>>

Graphs == 1..NumGraphs

Lists ==
    {"arcs", "bv_graphs_size", "bv_hc_graphs_size", "ans_sizes", "ans_hc_sizes",
     "ans_phases_sizes", "random_access_speed", "sequential_access_speed"}

NoArtifacts == [ans |-> -1, states |-> -1, pointers |-> -1, hc_ans |-> -1]

HeaderWritten ==
    results /= Stale \/ components_analysis /= Stale \/ components_analysis_hc /= Stale

\* An external program is started (procs), or a stage runs in-process (stages).
Invoke(procs, stages) ==
    /\ launched' = launched \cup procs
    /\ afterHeader' = IF HeaderWritten THEN afterHeader \cup procs \cup stages
                      ELSE afterHeader

\* exit(1)
Exit1 == pc' = "exited" /\ error' = "exit" /\ exitStatus' = 1 /\ failedAt' = failedAt

\* An uncaught exception: traceback, exit status 1.
Raise(e) == pc' = "crashed" /\ error' = e /\ exitStatus' = 1 /\ failedAt' = pc

Running == error' = error /\ exitStatus' = exitStatus /\ failedAt' = failedAt

\* The end of the script: exit status 0.
Finished == pc' = "done" /\ error' = error /\ exitStatus' = 0 /\ failedAt' = failedAt

InitCommon ==
    /\ graph = 1
    /\ exitStatus = -1
    /\ error = "none"
    /\ failedAt = "none"
    /\ buildStep = 1
    /\ buildFailed = FALSE
    /\ ansTools = FALSE
    /\ wgTool = FALSE
    /\ artifacts = [i \in Graphs |-> NoArtifacts]
    /\ arcs = <<>> /\ bv_graphs_size = <<>> /\ bv_hc_graphs_size = <<>>
    /\ ans_sizes = <<>> /\ ans_hc_sizes = <<>> /\ ans_phases_sizes = <<>>
    /\ random_access_speed = <<>> /\ sequential_access_speed = <<>>
    /\ origin = [l \in Lists |-> <<>>]
    /\ bv_random_speed = 0
    /\ obl_size = 0
    /\ results = Stale
    /\ components_analysis = Stale
    /\ components_analysis_hc = Stale
    /\ launched = {}
    /\ afterHeader = {}
    /\ compFailed = {}
    /\ artifactsRead = {}
    /\ speedTested = {}

MissingSets(files) ==
    {m \in SUBSET (Graphs \X files) : Cardinality(m) <= MaxMissing}

\* ------------------------------------------------------------- script.py
Init ==
    /\ InitCommon
    /\ pc = "check_dirs"
    /\ missing \in MissingSets(ScriptFiles)
    /\ badDir \in {"none", "graphs_dir", "webgraph_rs_dir", "compressed_graphs_dir"}
    /\ fnIn = <<>> /\ fnOut = <<>>

\* if not os.path.isdir(...): exit(1), three times
CheckDirs ==
    /\ pc = "check_dirs"
    /\ IF badDir /= "none" THEN Exit1 ELSE pc' = "check_files" /\ Running
    /\ UNCHANGED <<graph, envVars, toolVars, artifacts, accVars, bv_random_speed,
                   obl_size, reportVars, launched, afterHeader, ghostVars, fnVars>>

\* for graph in ans_graphs: if not os.path.isfile(...) or ...: exit(1)
CheckFiles ==
    /\ pc = "check_files"
    /\ IF \E i \in Graphs, f \in ScriptFiles : <<i, f>> \in missing
       THEN Exit1
       ELSE pc' = "build" /\ Running
    /\ UNCHANGED <<graph, envVars, toolVars, artifacts, accVars, bv_random_speed,
                   obl_size, reportVars, launched, afterHeader, ghostVars, fnVars>>

\* subprocess.run(["cargo", "build", ...]), four times; the status is not read.
\* A build that fails leaves the binaries of an earlier build, or none.
Build ==
    /\ pc = "build"
    /\ \E rc \in {0, 1}, left \in BOOLEAN :
        /\ buildFailed' = (buildFailed \/ rc /= 0)
        /\ IF buildStep <= 3
           THEN /\ ansTools' = IF buildStep = 1 THEN (rc = 0 \/ left)
                               ELSE (ansTools /\ (rc = 0 \/ left))
                /\ wgTool' = wgTool
           ELSE /\ wgTool' = (rc = 0 \/ left)
                /\ ansTools' = ansTools
    /\ buildStep' = buildStep + 1
    /\ pc' = IF buildStep = 4 THEN "metadata" ELSE "build"
    /\ Invoke({"cargo_build"}, {})
    /\ Running
    /\ UNCHANGED <<graph, envVars, artifacts, accVars, bv_random_speed, obl_size,
                   reportVars, ghostVars, fnVars>>

\* What the run may find in the input and output directories and on the
\* tools' standard output for dataset i.
Line(k, v) == [key |-> <<k>>, val |-> v]

RunProperties(i) ==
    { <<Line("arcs", a), Line("bitsperlink", b)>> : a \in {0, 8 * i}, b \in {500, 2000} }
        \cup { <<Line("bitsperlink", 2000)>> }

RunHcProperties(i) == { <<Line("arcs", 8 * i), Line("bitsperlink", 1500)>> }

WrittenArtifacts(i) ==
    [ans |-> 3 * i, states |-> i, pointers |-> 1, hc_ans |-> i]

RunSeqOutput(i) ==
    { << <<1310>>, <<1250 + i>>, <<>>, <<1290>>, <<>> >>, << <<>> >> }

RunRandomOutput(i) == { << <<4155 + i>>, <<4000>>, <<>> >>, << <<>> >> }

RunBenchOutput(i) ==
    { << <<7, 5000>>, <<7, 6000 + i>>, <<>> >>, << <<7, 0>>, <<>> >>, << <<>> >> }

RunOblSize(i) == {0, 4 * i}

Tag(lists) ==
    origin' = [l \in Lists |->
                  IF l \in lists THEN Append(origin[l], ans_graphs[graph]) ELSE origin[l]]

\* grep -w arcs / bitsperlink on <graph>.properties and <graph>-hc.properties
Metadata ==
    /\ pc = "metadata"
    /\ \E file \in RunProperties(graph), hc_file \in RunHcProperties(graph) :
        LET n == number_of_arcs(file)
            b == bit_per_link(file)
            hb == bit_per_link(hc_file)
        IN  IF n.err /= "none"
            THEN /\ Raise(n.err)
                 /\ UNCHANGED accVars
            ELSE IF b.err /= "none" \/ hb.err /= "none"
            THEN /\ Raise("ValueError")
                 /\ arcs' = Append(arcs, n.val)
                 /\ Tag({"arcs"})
                 /\ UNCHANGED <<bv_graphs_size, bv_hc_graphs_size, ans_sizes, ans_hc_sizes,
                                ans_phases_sizes, random_access_speed,
                                sequential_access_speed>>
            ELSE /\ arcs' = Append(arcs, n.val)
                 /\ bv_graphs_size' = Append(bv_graphs_size, bv_size(b.val, n.val))
                 /\ bv_hc_graphs_size' = Append(bv_hc_graphs_size, bv_size(hb.val, n.val))
                 /\ Tag({"arcs", "bv_graphs_size", "bv_hc_graphs_size"})
                 /\ UNCHANGED <<ans_sizes, ans_hc_sizes, ans_phases_sizes,
                                random_access_speed, sequential_access_speed>>
                 /\ pc' = "compress"
                 /\ Running
    /\ Invoke({"grep"}, {})
    /\ UNCHANGED <<graph, envVars, toolVars, artifacts, bv_random_speed, obl_size,
                   reportVars, ghostVars, fnVars>>

\* subprocess.run(["./target/release/bvcomp", ...]): the status is not read.
\* A compressor that fails leaves truncated files, or none.
RunCompressor(next, exts) ==
    IF ~ansTools
    THEN /\ Raise("FileNotFoundError")
         /\ UNCHANGED <<artifacts, launched, afterHeader, compFailed>>
    ELSE /\ \E rc \in {0, 1}, wrote \in BOOLEAN :
            /\ compFailed' = IF rc /= 0 THEN compFailed \cup {graph} ELSE compFailed
            /\ artifacts' =
                [artifacts EXCEPT ![graph] =
                    [e \in DOMAIN NoArtifacts |->
                        IF e \notin exts THEN @[e]
                        ELSE IF rc = 0 THEN WrittenArtifacts(graph)[e]
                        ELSE IF wrote THEN 0 ELSE @[e]]]
         /\ Invoke({"bvcomp"}, {})
         /\ pc' = next
         /\ Running

CompressStandard ==
    /\ pc = "compress"
    /\ RunCompressor("compress_hc", {"ans", "states", "pointers"})
    /\ UNCHANGED <<graph, envVars, toolVars, accVars, bv_random_speed, obl_size,
                   reportVars, artifactsRead, speedTested, fnVars>>

CompressHigh ==
    /\ pc = "compress_hc"
    /\ RunCompressor("getsize", {"hc_ans"})
    /\ UNCHANGED <<graph, envVars, toolVars, accVars, bv_random_speed, obl_size,
                   reportVars, artifactsRead, speedTested, fnVars>>

PhasesEntriesSeparately(states, pointers) == <<states, pointers>>

\* ans_phases_sizes.append(states + pointers)
PhasesEntries(states, pointers) == <<states + pointers>>

\* os.path.getsize of .ans, -hc.ans, .states, .pointers, in this order; the
\* first absent file raises FileNotFoundError
ReadSizes ==
    /\ pc = "getsize"
    /\ LET a == artifacts[graph]
           new_ans == IF a.ans < 0 THEN <<>> ELSE <<a.ans>>
           new_hc == IF a.ans < 0 \/ a.hc_ans < 0 THEN <<>> ELSE <<a.hc_ans>>
           absent == a.ans < 0 \/ a.hc_ans < 0 \/ a.states < 0 \/ a.pointers < 0
           new_phases == IF absent THEN <<>> ELSE PhasesEntries(a.states, a.pointers)
       IN  /\ ans_sizes' = ans_sizes \o new_ans
           /\ ans_hc_sizes' = ans_hc_sizes \o new_hc
           /\ ans_phases_sizes' = ans_phases_sizes \o new_phases
           /\ origin' =
                [l \in Lists |->
                    origin[l] \o
                    [k \in 1..(CASE l = "ans_sizes" -> Len(new_ans)
                                 [] l = "ans_hc_sizes" -> Len(new_hc)
                                 [] l = "ans_phases_sizes" -> Len(new_phases)
                                 [] OTHER -> 0) |-> ans_graphs[graph]]]
           /\ IF absent THEN Raise("FileNotFoundError")
              ELSE pc' = "seq_test" /\ Running
    /\ artifactsRead' = artifactsRead \cup {graph}
    /\ UNCHANGED <<arcs, bv_graphs_size, bv_hc_graphs_size, random_access_speed,
                   sequential_access_speed>>
    /\ UNCHANGED <<graph, envVars, toolVars, artifacts, bv_random_speed, obl_size,
                   reportVars, launched, afterHeader, compFailed, speedTested, fnVars>>

\* seq_access_bvtest on <graph>-hc, then the median of its samples
SequentialTest ==
    /\ pc = "seq_test"
    /\ \E out \in RunSeqOutput(graph) :
        LET m == sequential_speed(out)
        IN  IF m.err /= "none"
            THEN /\ Raise(m.err)
                 /\ UNCHANGED <<sequential_access_speed, origin>>
            ELSE /\ sequential_access_speed' = Append(sequential_access_speed, m.val)
                 /\ Tag({"sequential_access_speed"})
                 /\ pc' = "random_test"
                 /\ Running
    /\ Invoke({"seq_access_bvtest"}, {"median"})
    /\ speedTested' = speedTested \cup {graph}
    /\ UNCHANGED <<arcs, bv_graphs_size, bv_hc_graphs_size, ans_sizes, ans_hc_sizes,
                   ans_phases_sizes, random_access_speed>>
    /\ UNCHANGED <<graph, envVars, toolVars, artifacts, bv_random_speed, obl_size,
                   reportVars, compFailed, artifactsRead, fnVars>>

\* random_access_bvtest on <graph>, then the median of its samples; the next
\* dataset, or the report after the last
RandomTest ==
    /\ pc = "random_test"
    /\ \E out \in RunRandomOutput(graph) :
        LET m == random_speed(out)
        IN  IF m.err /= "none"
            THEN /\ Raise(m.err)
                 /\ UNCHANGED <<random_access_speed, origin, graph>>
            ELSE /\ random_access_speed' = Append(random_access_speed, m.val)
                 /\ Tag({"random_access_speed"})
                 /\ IF graph < NumGraphs
                    THEN pc' = "metadata" /\ graph' = graph + 1
                    ELSE pc' = "open_report" /\ graph' = graph
                 /\ Running
    /\ Invoke({"random_access_bvtest"}, {"median"})
    /\ UNCHANGED <<arcs, bv_graphs_size, bv_hc_graphs_size, ans_sizes, ans_hc_sizes,
                   ans_phases_sizes, sequential_access_speed>>
    /\ UNCHANGED <<envVars, toolVars, artifacts, bv_random_speed, obl_size,
                   reportVars, ghostVars, fnVars>>

OpenReportBeforeLoop ==
    /\ pc = "metadata" /\ graph = 1 /\ results = Stale
    /\ results' = Append(OpenForWriting(results), Header)
    /\ Running
    /\ UNCHANGED <<pc, graph, envVars, toolVars, artifacts, accVars, bv_random_speed,
                   obl_size, components_analysis, components_analysis_hc, launched,
                   afterHeader, ghostVars, fnVars>>

\* with open('results.csv', 'w', ...) as f: writer.writerow([...header...])
OpenReport ==
    /\ pc = "open_report"
    /\ results' = Append(OpenForWriting(results), Header)
    /\ graph' = 1
    /\ pc' = "build_ef"
    /\ Running
    /\ UNCHANGED <<envVars, toolVars, artifacts, accVars, bv_random_speed, obl_size,
                   components_analysis, components_analysis_hc, launched, afterHeader,
                   ghostVars, fnVars>>

\* if not os.path.isfile(<graph>.ef): webgraph build ef
BuildEf ==
    /\ pc = "build_ef"
    /\ \E ef_exists \in BOOLEAN :
        IF ef_exists THEN UNCHANGED <<launched, afterHeader>>
        ELSE Invoke({"webgraph_build_ef"}, {})
    /\ pc' = "bench"
    /\ Running
    /\ UNCHANGED <<graph, envVars, toolVars, artifacts, accVars, bv_random_speed,
                   obl_size, reportVars, ghostVars, fnVars>>

\* webgraph bench bvgraph --random, then the median of column [1]; without
\* the tool the shell prints nothing on standard output
WebgraphBench ==
    /\ pc = "bench"
    /\ \E out \in (IF wgTool THEN RunBenchOutput(graph) ELSE { << <<>> >> }) :
        LET m == bv_random_speed_of(out)
        IN  IF m.err /= "none"
            THEN /\ Raise(m.err)
                 /\ UNCHANGED bv_random_speed
            ELSE /\ bv_random_speed' = m.val
                 /\ pc' = "write_row"
                 /\ Running
    /\ Invoke({"webgraph_bench"}, {"median"})
    /\ UNCHANGED <<graph, envVars, toolVars, artifacts, accVars, obl_size,
                   reportVars, ghostVars, fnVars>>

\* data = [...]
Row(i, obl) ==
    << ans_graphs[i],
       <<bv_graphs_size[i]>>,
       <<ans_sizes[i]>>,
       <<Fmt3(bit_link(ans_sizes[i], arcs[i])),
         Fmt0(occupation(bv_graphs_size[i], ans_sizes[i]))>>,
       <<bv_hc_graphs_size[i]>>,
       <<ans_hc_sizes[i]>>,
       <<Fmt3(bit_link(ans_hc_sizes[i], arcs[i])),
         Fmt0(occupation_hc(bv_hc_graphs_size[i], ans_hc_sizes[i]))>>,
       <<ans_phases_sizes[i], Fmt0(occupation_phases(obl, ans_phases_sizes[i]))>>,
       <<ans_sizes[i] + ans_phases_sizes[i]>>,
       <<random_access_speed[i],
         Fmt1(random_speed_comparison(bv_random_speed, random_access_speed[i]))>>,
       <<Fmt1(Quot(sequential_access_speed[i], 100))>> >>

\* The metrics of one row and writer.writerow(data); a zero denominator
\* raises ZeroDivisionError inside the with block, which closes the file.
WriteRow ==
    /\ pc = "write_row"
    /\ \E obl \in RunOblSize(graph) :
        IF arcs[graph] = 0 \/ bv_graphs_size[graph] = 0 \/ bv_hc_graphs_size[graph] = 0
        THEN /\ Raise("ZeroDivisionError")
             /\ UNCHANGED <<obl_size, results, graph>>
        ELSE IF obl = 0 \/ bv_random_speed = 0
        THEN /\ Raise("ZeroDivisionError")
             /\ obl_size' = obl
             /\ UNCHANGED <<results, graph>>
        ELSE /\ obl_size' = obl
             /\ results' = Append(results, Row(graph, obl))
             /\ IF graph < NumGraphs
                THEN pc' = "build_ef" /\ graph' = graph + 1 /\ Running
                ELSE Finished /\ graph' = graph
    /\ UNCHANGED <<envVars, toolVars, artifacts, accVars, bv_random_speed,
                   components_analysis, components_analysis_hc, launched, afterHeader,
                   ghostVars, fnVars>>

Next ==
    \/ CheckDirs
    \/ CheckFiles
    \/ Build
    \/ Metadata
    \/ CompressStandard
    \/ CompressHigh
    \/ ReadSizes
    \/ SequentialTest
    \/ RandomTest
    \/ OpenReport
    \/ BuildEf
    \/ WebgraphBench
    \/ WriteRow

Spec == Init /\ [][Next]_vars

\* ------------------------------------------------- percomponent_analysis.py
\* The files of one dataset that percomponent_analysis.py reads.
ComponentFiles == {"properties", "output", "hc.properties", "hc.output"}

Units == <<"", "Ki", "Mi", "Gi", "Ti", "Pi", "Ei", "Zi">>

Abs(n) == IF n < 0 THEN -n ELSE n

\* sizeof_fmt(num): <<tenths, unit>> of f"{num:3.1f}{unit}B"
RECURSIVE SizeofFrom(_, _, _)
SizeofFrom(num, den, u) ==
    IF u > Len(Units) THEN <<RoundHalfEven(num, den, 10), "Yi">>
    ELSE IF Abs(num) < 1024 * den THEN <<RoundHalfEven(num, den, 10), Units[u]>>
    ELSE SizeofFrom(num, den * 1024, u + 1)

sizeof_fmt(num) == SizeofFrom(num, 1, 1)

ComponentHeader ==
    <<"name", "Blocks", "Intervals", "Residuals", "References", "Outdegree">>

ComponentFields ==
    <<"bitsforblocks", "bitsforintervals", "bitsforresiduals", "bitsforreferences",
      "bitsforoutdegrees">>

ComponentProperties(bits) == [k \in 1..5 |-> Line(ComponentFields[k], bits[k])]

\* What the run may find in a dataset's property file and in the lines that
\* grep -A 10 | cut takes from the compressor's log.
RunComponentProperties(i) ==
    { ComponentProperties(<<8000 * i, 2400, 1600, 804, 80>>),
      ComponentProperties(<<16000, 2400 * i, 1600, 800, 80>>),
      ComponentProperties(<<4, 2400, 1600, 800, 80>>),
      <<Line("bitsforblocks", 8000)>> }

RunComponentOutput(i) ==
    { << <<>>, <<>>, <<12>>, <<90 + i>>, <<500>>, <<700 * i>>, <<100>>, <<100>>,
         <<50>>, <<150>>, <<25>>, <<>> >> }

\* The five baselines, the five sums and the row of one dataset:
\* [err, row].  fields is output after split("\n"); Python indexes from 0.
ComponentRow(name, file, fields) ==
    LET bv == [k \in 1..5 |-> bv_component(ComponentFields[k], file)]
        at(j) == fields[j + 1][1]
        ans_blocks == at(4) + at(5)
        ans_intervals == at(6) + at(7) + at(8)
        ans_residuals == at(9) + at(10)
        ans_references == at(3)
        ans_outdegree == at(2)
        cell(b, a) == <<sizeof_fmt(a), Fmt1(component_delta(b, a))>>
    IN  IF \E k \in 1..5 : bv[k].err /= "none"
        THEN [err |-> "ValueError", row |-> <<>>]
        ELSE IF Len(fields) < 11
        THEN [err |-> "IndexError", row |-> <<>>]
        ELSE IF \E j \in 2..10 : fields[j + 1] = <<>>
        THEN [err |-> "ValueError", row |-> <<>>]
        ELSE IF \E k \in 1..5 : bv[k].val = 0
        THEN [err |-> "ZeroDivisionError", row |-> <<>>]
        ELSE [err |-> "none",
              row |-> << name,
                         cell(bv[1].val, ans_blocks),
                         cell(bv[2].val, ans_intervals),
                         cell(bv[3].val, ans_residuals),
                         cell(bv[4].val, ans_references),
                         cell(bv[5].val, ans_outdegree) >>]

InitComponents ==
    /\ InitCommon
    /\ pc = "pc_check"
    /\ missing \in MissingSets(ComponentFiles)
    /\ badDir = "none"
    /\ fnIn = <<>> /\ fnOut = <<>>

\* for graph in ans_graphs: .properties and .output must be files, or exit(1)
ComponentCheck ==
    /\ pc = "pc_check"
    /\ IF \E i \in Graphs, f \in {"properties", "output"} : <<i, f>> \in missing
       THEN Exit1
       ELSE pc' = "pc_open" /\ Running
    /\ UNCHANGED <<graph, envVars, toolVars, artifacts, accVars, bv_random_speed,
                   obl_size, reportVars, launched, afterHeader, ghostVars, fnVars>>

\* with open('components_analysis.csv', 'w', ...): the header
ComponentOpen ==
    /\ pc = "pc_open"
    /\ components_analysis' = Append(OpenForWriting(components_analysis), ComponentHeader)
    /\ graph' = 1
    /\ pc' = "pc_row"
    /\ Running
    /\ UNCHANGED <<envVars, toolVars, artifacts, accVars, bv_random_speed, obl_size,
                   results, components_analysis_hc, launched, afterHeader, ghostVars,
                   fnVars>>

\* One dataset of the first loop: six greps and the row.
ComponentWriteRow ==
    /\ pc = "pc_row"
    /\ \E file \in RunComponentProperties(graph), out \in RunComponentOutput(graph) :
        LET r == ComponentRow(ans_graphs[graph], file, out)
        IN  IF r.err /= "none"
            THEN /\ Raise(r.err)
                 /\ UNCHANGED <<components_analysis, graph>>
            ELSE /\ components_analysis' = Append(components_analysis, r.row)
                 /\ IF graph < NumGraphs
                    THEN pc' = "pc_row" /\ graph' = graph + 1
                    ELSE pc' = "pc_open_hc" /\ graph' = graph
                 /\ Running
    /\ Invoke({"grep"}, {})
    /\ UNCHANGED <<envVars, toolVars, artifacts, accVars, bv_random_speed, obl_size,
                   results, components_analysis_hc, ghostVars, fnVars>>

\* with open('components_analysis_hc.csv', 'w', ...): the header
ComponentOpenHc ==
    /\ pc = "pc_open_hc"
    /\ components_analysis_hc' =
            Append(OpenForWriting(components_analysis_hc), ComponentHeader)
    /\ graph' = 1
    /\ pc' = "pc_row_hc"
    /\ Running
    /\ UNCHANGED <<envVars, toolVars, artifacts, accVars, bv_random_speed, obl_size,
                   results, components_analysis, launched, afterHeader, ghostVars,
                   fnVars>>

\* One dataset of the second loop, on <graph>-hc.properties and
\* <graph>-hc.output: grep prints nothing for a file that is absent.
ComponentWriteRowHc ==
    /\ pc = "pc_row_hc"
    /\ \E file \in (IF <<graph, "hc.properties">> \in missing THEN { <<>> }
                    ELSE RunComponentProperties(graph)),
          out \in (IF <<graph, "hc.output">> \in missing THEN { << <<>> >> }
                   ELSE RunComponentOutput(graph)) :
        LET r == ComponentRow(ans_graphs[graph], file, out)
        IN  IF r.err /= "none"
            THEN /\ Raise(r.err)
                 /\ UNCHANGED <<components_analysis_hc, graph>>
            ELSE /\ components_analysis_hc' = Append(components_analysis_hc, r.row)
                 /\ IF graph < NumGraphs
                    THEN pc' = "pc_row_hc" /\ graph' = graph + 1 /\ Running
                    ELSE Finished /\ graph' = graph
    /\ Invoke({"grep"}, {})
    /\ UNCHANGED <<envVars, toolVars, artifacts, accVars, bv_random_speed, obl_size,
                   results, components_analysis, ghostVars, fnVars>>

NextComponents ==
    \/ ComponentCheck
    \/ ComponentOpen
    \/ ComponentWriteRow
    \/ ComponentOpenHc
    \/ ComponentWriteRowHc

SpecComponents == InitComponents /\ [][NextComponents]_vars

\* ------------------------------------------------ the functions on their own
\* The reductions, the extraction and the deltas applied to inputs drawn from
\* bounded sets.
RECURSIVE SeqsUpTo(_, _)
SeqsUpTo(S, n) ==
    IF n = 0 THEN { <<>> }
    ELSE LET shorter == SeqsUpTo(S, n - 1)
         IN  shorter \cup { Append(q, x) : q \in shorter, x \in S }

SampleFields == { <<>> } \cup { <<v>> : v \in 1..3 }

KeysOf(name) == { <<name>>, <<name, "x">>, <<"x", ".", name>>, <<"x", name>> }

PropertyLines(name) ==
    { [key |-> k, val |-> v] : k \in KeysOf(name), v \in {800, 1608} }

FieldNames == {"arcs", "bitsforblocks"}

\* One column before the speed, as webgraph bench prints it.
AsBenchLine(f) == IF f = <<>> THEN <<>> ELSE <<0, f[1]>>

InitFunctions ==
    /\ InitCommon
    /\ pc = "apply"
    /\ missing = {}
    /\ badDir = "none"
    /\ fnOut = <<>>
    /\ \/ \E f \in SeqsUpTo(SampleFields, MaxSamples) \ { <<>> } :
            fnIn = [kind |-> "stdout", fields |-> f]
       \/ \E n \in FieldNames :
            \E f \in SeqsUpTo(PropertyLines(n), MaxLines) \ { <<>> } :
                fnIn = [kind |-> "properties", name |-> n, file |-> f]
       \/ \E b \in 0..MaxMetric, n \in 0..MaxMetric :
            fnIn = [kind |-> "metric", baseline |-> b, new |-> n]

Applied ==
    /\ pc' = "applied"
    /\ UNCHANGED <<graph, exitStatus, error, failedAt, envVars, toolVars, artifacts,
                   accVars, bv_random_speed, obl_size, reportVars, launched,
                   afterHeader, ghostVars, fnIn>>

\* The three reductions of script.py on one tool output.
Reduce ==
    /\ pc = "apply" /\ fnIn.kind = "stdout"
    /\ fnOut' = [sequential |-> sequential_speed(fnIn.fields),
                 random |-> random_speed(fnIn.fields),
                 bv_random |->
                    bv_random_speed_of([j \in 1..Len(fnIn.fields) |->
                                           AsBenchLine(fnIn.fields[j])])]
    /\ Applied

\* The extraction of script.py (arcs) and of percomponent_analysis.py
\* (bitsforblocks) on one property file.
Extract ==
    /\ pc = "apply" /\ fnIn.kind = "properties"
    /\ fnOut' = IF fnIn.name = "arcs" THEN number_of_arcs(fnIn.file)
                ELSE bv_component(fnIn.name, fnIn.file)
    /\ Applied

\* The percentage deltas of both scripts on one (baseline, new) pair; a zero
\* baseline raises ZeroDivisionError.
Sites ==
    {"occupation", "occupation_hc", "occupation_phases", "random_speed_comparison",
     "component"}

ComputeDeltas ==
    /\ pc = "apply" /\ fnIn.kind = "metric"
    /\ LET b == fnIn.baseline
           n == fnIn.new
       IN  fnOut' =
            IF b = 0 THEN [s \in Sites |-> [err |-> "ZeroDivisionError", q |-> Quot(0, 1)]]
            ELSE [s \in Sites |->
                    [err |-> "none",
                     q |-> CASE s = "occupation" -> occupation(b, n)
                             [] s = "occupation_hc" -> occupation_hc(b, n)
                             [] s = "occupation_phases" -> occupation_phases(b, n)
                             [] s = "random_speed_comparison" ->
                                    random_speed_comparison(b, n)
                             [] s = "component" -> component_delta(b, n)]]
    /\ Applied

NextFunctions == Reduce \/ Extract \/ ComputeDeltas

SpecFunctions == InitFunctions /\ [][NextFunctions]_vars

\* Either script is run.
InitAll == Init \/ InitComponents

NextAll == Next \/ NextComponents

SpecAll == InitAll /\ [][NextAll]_vars

\* ================================================================== claims

RowNames(file) == { file[k][1] : k \in 2..Len(file) }

\* C1: a file the run later reads that is absent at the start ends the run
\* with a non-zero exit status right after the checks: no external program
\* has been started and no report file has been opened.
C1_MissingFileAbortsBeforeAnyWork ==
    (missing /= {} /\ pc \notin {"pc_check", "check_dirs", "check_files"})
        => (pc = "exited" /\ exitStatus = 1 /\ launched = {} /\ ~HeaderWritten)

\* The statement of C1 restricted to the files script.py reads.
ScriptMissingFileAborts ==
    ((\E i \in Graphs, f \in ScriptFilesRead : <<i, f>> \in missing)
        /\ pc \notin {"check_dirs", "check_files"})
        => (pc = "exited" /\ exitStatus = 1 /\ launched = {} /\ ~HeaderWritten)

\* C2: a dataset whose compressor ended with a non-zero status has none of
\* its artifacts read, no speed test run and no row in the report, and the
\* run does not die on it: the other datasets are still reported.
C2_FailedCompressionSkipsDataset ==
    \A i \in compFailed :
        /\ i \notin artifactsRead
        /\ i \notin speedTested
        /\ ans_graphs[i] \notin RowNames(results)
        /\ ~(pc = "crashed" /\ failedAt = "getsize" /\ graph = i)

\* C3: after a tool build that failed, no compressor and no benchmark is
\* started and no report file is written.
C3_FailedBuildAbortsRun ==
    buildFailed =>
        /\ launched \cap {"bvcomp", "seq_access_bvtest", "random_access_bvtest",
                          "webgraph_build_ef", "webgraph_bench"} = {}
        /\ ~HeaderWritten

\* C4 as stated: once the report's header is written, no build tool, no
\* speed-sampling process and no statistic reduction runs again.
C4_NothingEarlierAfterHeader ==
    afterHeader \cap {"cargo_build", "webgraph_build_ef", "seq_access_bvtest",
                      "random_access_bvtest", "webgraph_bench", "median"} = {}

\* C4 amended: once the report's header is written, no cargo build, no
\* metadata grep, no compressor and no speed test of the new format runs
\* again; what does run inside the report loop is the baseline tool only:
\* webgraph build ef, webgraph bench and the median of its samples.
C4_OnlyBaselineToolAfterHeader ==
    afterHeader \subseteq {"webgraph_build_ef", "webgraph_bench", "median"}

C4_Witness ==
    /\ pc = "done"
    /\ afterHeader = {"webgraph_build_ef", "webgraph_bench", "median"}
    /\ {"cargo_build", "grep", "bvcomp", "seq_access_bvtest",
        "random_access_bvtest"} \subseteq launched

\* C5: at each reduction site the value reported for a non-empty sequence of
\* samples is the element at index len // 2 of the samples in ascending
\* order, whatever the order they were emitted in: fewer than len // 2 + 1
\* samples are strictly less, at least len // 2 + 1 are less or equal; so at
\* most half (rounded up) are strictly less and at most half strictly greater.
\* The samples of the two tests of the new format are the non-empty fields
\* of the output; those of the baseline benchmark are the lines before the
\* text that follows the last newline.
IsUpperMedian(v, positions, f) ==
    LET n == Cardinality(positions)
        less == Cardinality({j \in positions : f[j][1] < v})
        greater == Cardinality({j \in positions : f[j][1] > v})
    IN  /\ \E j \in positions : f[j][1] = v
        /\ less <= n \div 2
        /\ n - greater >= (n \div 2) + 1
        /\ 2 * less <= n + 1
        /\ 2 * greater <= n + 1

C5_ReducedValueIsUpperMedian ==
    (pc = "applied" /\ fnIn.kind = "stdout") =>
        LET f == fnIn.fields
            emitted == {j \in 1..Len(f) : f[j] /= <<>>}
            before_last == 1..(Len(f) - 1)
        IN  /\ emitted /= {} =>
                /\ fnOut.sequential.err = "none"
                /\ IsUpperMedian(fnOut.sequential.val, emitted, f)
                /\ fnOut.random.err = "none"
                /\ IsUpperMedian(fnOut.random.val, emitted, f)
            /\ (before_last /= {} /\ before_last \subseteq emitted) =>
                /\ fnOut.bv_random.err = "none"
                /\ IsUpperMedian(fnOut.bv_random.val, before_last, f)

C5_Witness ==
    /\ pc = "applied"
    /\ fnIn.kind = "stdout"
    /\ fnIn.fields = << <<3>>, <<1>>, <<>>, <<2>> >>
    /\ fnOut.sequential.val = 2
    /\ fnOut.random.val = 2
    /\ fnOut.bv_random.err = "IndexError"

C5_WitnessEven ==
    /\ pc = "applied"
    /\ fnIn.kind = "stdout"
    /\ fnIn.fields = << <<3>>, <<1>>, <<>> >>
    /\ fnOut.sequential.val = 3
    /\ fnOut.bv_random.val = 3

ZeroDenominator(i) ==
    \/ arcs[i] = 0
    \/ bv_graphs_size[i] = 0
    \/ bv_hc_graphs_size[i] = 0
    \/ obl_size = 0
    \/ bv_random_speed = 0

C7_ZeroDenominatorFailsCleanly ==
    (pc = "crashed" /\ failedAt = "write_row" /\ ZeroDenominator(graph)) =>
        /\ error = "DegenerateMetricError"
        /\ ~(/\ Len(results) = graph
             /\ results[1] = Header
             /\ \A k \in 2..Len(results) : results[k][1] = ans_graphs[k - 1])

\* C8: when a run completes, each report file it wrote is one header row and
\* then one row per registry dataset, in registry order, each starting with
\* the dataset's name; nothing of what the file held before is left.
WellFormedReport(file, header) ==
    /\ Len(file) = NumGraphs + 1
    /\ file[1] = header
    /\ \A i \in Graphs : file[i + 1][1] = ans_graphs[i]
    /\ \A k \in 1..Len(file) : file[k] \notin { Stale[j] : j \in 1..Len(Stale) }

C8_CompletedReportIsHeaderAndRows ==
    pc = "done" =>
        \/ /\ WellFormedReport(results, Header)
           /\ components_analysis = Stale /\ components_analysis_hc = Stale
        \/ /\ results = Stale
           /\ WellFormedReport(components_analysis, ComponentHeader)
           /\ WellFormedReport(components_analysis_hc, ComponentHeader)

C8_Witness ==
    /\ pc = "done"
    /\ WellFormedReport(results, Header)
    /\ results[NumGraphs + 1][2] = <<bv_graphs_size[NumGraphs]>>

C8_WitnessComponents ==
    /\ pc = "done"
    /\ WellFormedReport(components_analysis_hc, ComponentHeader)

\* The lookup C9 states: the value of the first line whose key is the name.
ExactKeyLine(name, line) == line.key = <<name>>

FirstExact(name, file) ==
    LET kept == SelectSeq(file, LAMBDA l : ExactKeyLine(name, l))
    IN  IF kept = <<>> THEN <<>> ELSE <<kept[1].val>>

\* C9: for a property file with a line whose key is exactly the requested
\* name, the extractor returns the value of the first such line (divided by
\* 8 for a bit-count field); a key that only starts with or contains the
\* name is not matched and a later duplicate is ignored.
C9_ExactKeyFirstOccurrence ==
    (pc = "applied" /\ fnIn.kind = "properties"
        /\ FirstExact(fnIn.name, fnIn.file) /= <<>>) =>
        /\ fnOut.err = "none"
        /\ fnOut.val = IF fnIn.name = "arcs" THEN FirstExact(fnIn.name, fnIn.file)[1]
                       ELSE FirstExact(fnIn.name, fnIn.file)[1] \div 8

\* C10: at the head of the dataset loop and from its end on, after k
\* completed iterations, each of the eight accumulator lists has exactly k
\* entries, entry i read from registry dataset i, and every row written
\* combines the entries at its own index.
ListOf(l) ==
    CASE l = "arcs" -> arcs
      [] l = "bv_graphs_size" -> bv_graphs_size
      [] l = "bv_hc_graphs_size" -> bv_hc_graphs_size
      [] l = "ans_sizes" -> ans_sizes
      [] l = "ans_hc_sizes" -> ans_hc_sizes
      [] l = "ans_phases_sizes" -> ans_phases_sizes
      [] l = "random_access_speed" -> random_access_speed
      [] l = "sequential_access_speed" -> sequential_access_speed

CompletedIterations == IF pc = "metadata" THEN graph - 1 ELSE NumGraphs

C10_AccumulatorsAligned ==
    (pc \in {"metadata", "open_report", "build_ef", "bench", "write_row", "done"}) =>
        /\ \A l \in Lists :
            /\ Len(ListOf(l)) = CompletedIterations
            /\ origin[l] = [i \in 1..CompletedIterations |-> ans_graphs[i]]
        /\ results /= Stale =>
            \A k \in 2..Len(results) :
                /\ results[k][1] = ans_graphs[k - 1]
                /\ results[k][2] = <<bv_graphs_size[k - 1]>>
                /\ results[k][3] = <<ans_sizes[k - 1]>>
                /\ results[k][5] = <<bv_hc_graphs_size[k - 1]>>
                /\ results[k][6] = <<ans_hc_sizes[k - 1]>>
                /\ results[k][8][1] = ans_phases_sizes[k - 1]
                /\ results[k][9] = <<ans_sizes[k - 1] + ans_phases_sizes[k - 1]>>
                /\ results[k][10][1] = random_access_speed[k - 1]
                /\ results[k][11] = <<Fmt1(Quot(sequential_access_speed[k - 1], 100))>>

C10_Witness ==
    /\ pc = "write_row"
    /\ graph = 2
    /\ Len(results) = 2
    /\ Len(arcs) = NumGraphs
    /\ arcs[1] /= arcs[2]

====
